---- MODULE Spec2Model ----
(***************************************************************************)
(* A model of the mod resolution engine of The-Modding-of-Isaac:           *)
(* ModFactory.build / __build_multiple / __build_singular and the          *)
(* constructor Mod.__post_init__ of src/Util/TMoI_Util_Gen.py.             *)
(*                                                                         *)
(* The interpreter is single-threaded: the state holds the heap of Mod     *)
(* objects, the class attribute ModFactory.MOD_LIST, the stack of Mod      *)
(* constructions in progress, and the caller's pending call.               *)
(***************************************************************************)
EXTENDS Integers, Sequences, FiniteSets, TLC

\* ------------------------------------------------------------------------
\* Program constants (GLOBALS region of TMoI_Util_Gen.py)
\* ------------------------------------------------------------------------
DEFAULT_RETRY_TIME == 5
MAX_REQUEST_RETRIES == 5

\* ------------------------------------------------------------------------
\* Bounds of the model
\* ------------------------------------------------------------------------
\* Refs the caller hands to ModFactory.build in one behaviour, over all calls.
MaxCalls == 2
\* Nested Mod constructions the interpreter's recursion limit allows.
RecursionLimit == 3
\* Largest integer carried by a Retry-After header.
MaxRetryAfter == 7

\* ------------------------------------------------------------------------
\* Values
\* ------------------------------------------------------------------------
\* Python values are tagged with their type: an int never equals a str.
NoneVal == [t |-> "None", v |-> 0]
IntRef(k) == [t |-> "int", v |-> k]
PathRef(p) == [t |-> "path", v |-> p]
StrVal(k) == [t |-> "str", v |-> k]
\* A ref that is neither an int nor a Path.
BadRef == [t |-> "str", v |-> 0]

\* str(ref) of an integer ref: the decimal text of the number.
Str(ref) == StrVal(ref.v)

\* The metadata attributes other than id that __post_init__ extracts.
OtherAttrs == {"name", "description", "version", "visibility"}

\* ------------------------------------------------------------------------
\* The environment: the mods directory and the catalog pages
\* ------------------------------------------------------------------------
\* An entry of the mods directory.  kind: "file" or "dir"; meta: "none" (no
\* metadata.xml), "garbled" (parse raises ParseError) or "ok"; id: -1 when the
\* metadata has no id element, 0 when the element is empty, k > 0 for the
\* text "k"; attrs: the other elements the metadata has.
File == [kind |-> "file", meta |-> "none", id |-> -1, attrs |-> {}]
NoMeta == [kind |-> "dir", meta |-> "none", id |-> -1, attrs |-> {}]
Garbled == [kind |-> "dir", meta |-> "garbled", id |-> -1, attrs |-> {}]
ModDir(id, attrs) == [kind |-> "dir", meta |-> "ok", id |-> id, attrs |-> attrs]

\* A link of the required-items block whose id cannot be extracted.
BadLink == 0

\* Catalog ids: 1, 2, 3 are installed mods, 4 is a listing not installed.
Ids == 1..4

\* Acyclic catalog: 1 and 2 both require 3; 1 also requires the uninstalled 4;
\* the second link of 2 carries no id.
AcyclicWorld ==
    [fs |-> << File, NoMeta, ModDir(-1, {"name"}), Garbled,
               ModDir(1, OtherAttrs), ModDir(2, OtherAttrs \ {"version"}),
               ModDir(3, OtherAttrs) >>,
     links |-> [k \in Ids |-> CASE k = 1 -> << 3, 4 >>
                                [] k = 2 -> << 3, BadLink >>
                                [] OTHER -> << >>]]

\* Cyclic catalog: 1 requires 2 and 2 requires 1; the first link of 3 carries
\* no id; the directory without an id element is iterated last.
CyclicWorld ==
    [fs |-> << ModDir(1, OtherAttrs), ModDir(2, OtherAttrs),
               ModDir(3, {"name", "version"}), File, ModDir(0, OtherAttrs),
               ModDir(-1, OtherAttrs) >>,
     links |-> [k \in Ids |-> CASE k = 1 -> << 2 >>
                                [] k = 2 -> << 1 >>
                                [] k = 3 -> << BadLink, 1 >>
                                [] OTHER -> << >>]]

Worlds == {AcyclicWorld, CyclicWorld}

\* ------------------------------------------------------------------------
\* State
\* ------------------------------------------------------------------------
VARIABLES
    fs,         \* the mods directory, in the order iterdir() yields it
    links,      \* per catalog id, the links of div#RequiredItems on its page
    heap,       \* the Mod objects created so far; an object is its index
    MOD_LIST,   \* ModFactory.MOD_LIST: indices of the registered objects
    stack,      \* the Mod constructions in progress, innermost last
    req,        \* the call of __build_singular about to run, or NoReq
    call,       \* the caller's call of ModFactory.build in progress
    outcome,    \* how the caller's latest call ended, until the next call
    log,        \* the single builds that returned a Mod, oldest first
    used        \* the refs handed to ModFactory.build so far

vars == << fs, links, heap, MOD_LIST, stack, req, call, outcome, log, used >>

NoReq == [ref |-> NoneVal, mp |-> FALSE]
Idle == [kind |-> "none", refs |-> << >>, mp |-> FALSE, idx |-> 0, ret |-> << >>,
         outs |-> << >>, heap0 |-> << >>, list0 |-> << >>]

\* The frame of a construction: the Mod being built, the position in
\* __post_init__, and its locals.  gets counts the GETs issued, slept is the
\* time slept since the last response, how tells how the retry loop ended
\* ("no" while it has not, "ok", "404" or "exhausted").
NewFrame(self, pc) ==
    [self |-> self, pc |-> pc, retry_attempts |-> 0, gets |-> 0,
     status |-> 0, header |-> NoneVal, retry_delay |-> 0, slept |-> 0,
     how |-> "no", link |-> 1, item_ref |-> NoneVal, new_dep |-> 0]

Top == stack[Len(stack)]
Pop == SubSeq(stack, 1, Len(stack) - 1)

\* ------------------------------------------------------------------------
\* Mod.__post_init__, local part: locating and reading metadata.xml
\* ------------------------------------------------------------------------
\* The search loop over mods_path.iterdir() for an integer ref.  mt is the
\* local meta_tree: 0 for None, else the directory whose tree it holds.
RECURSIVE SearchFrom(_, _, _, _)
SearchFrom(dir, ref, i, mt) ==
    IF i > Len(dir) THEN mt
    ELSE LET f == dir[i] IN
         IF f.kind # "dir" THEN SearchFrom(dir, ref, i + 1, mt)
         ELSE IF f.meta = "none" THEN SearchFrom(dir, ref, i + 1, mt)
         ELSE IF f.meta = "garbled" THEN SearchFrom(dir, ref, i + 1, mt)
         ELSE IF f.id = -1 THEN SearchFrom(dir, ref, i + 1, i)
         ELSE IF f.id > 0 /\ Str(ref) = StrVal(f.id) THEN i
         ELSE SearchFrom(dir, ref, i + 1, 0)

\* Path.is_dir() of the path numbered p.
IsDir(dir, p) == p \in 1..Len(dir) /\ dir[p].kind = "dir"

\* meta_tree after lines 164-233: the directory whose metadata was parsed,
\* or 0 when ModInstanceCreationError is raised.
MetaTree(dir, ref, mp) ==
    IF ref.t = "path" THEN
        IF ~IsDir(dir, ref.v) THEN 0
        ELSE IF dir[ref.v].meta = "none" THEN 0
        ELSE IF dir[ref.v].meta = "garbled" THEN 0
        ELSE ref.v
    ELSE IF ref.t = "int" THEN
        IF ~mp THEN 0 ELSE SearchFrom(dir, ref, 1, 0)
    ELSE 0

\* NewMod, had any missing attribute stopped the scrape, not only the id.
NewModNeedingAllAttrs(ref, mp, d, f) ==
    [ref |-> ref, mods_path |-> mp, folder |-> d,
     id |-> IF f.id > 0 THEN StrVal(f.id) ELSE NoneVal,
     attrs |-> f.attrs,
     remote |-> {},
     position |-> -1,
     dependencies |-> << >>,
     dependents |-> << >>,
     circular |-> FALSE,
     metadata_ok |-> TRUE,
     workshop_ok |-> (f.id # -1 /\ f.attrs = OtherAttrs)]

\* The attribute loop of lines 235-252 applied to a fresh Mod.
NewMod(ref, mp, d, f) ==
    [ref |-> ref, mods_path |-> mp, folder |-> d,
     id |-> IF f.id > 0 THEN StrVal(f.id) ELSE NoneVal,
     attrs |-> f.attrs,
     remote |-> {},
     position |-> -1,
     dependencies |-> << >>,
     dependents |-> << >>,
     circular |-> FALSE,
     metadata_ok |-> TRUE,
     workshop_ok |-> (f.id # -1)]

\* ------------------------------------------------------------------------
\* ModFactory: cache lookup
\* ------------------------------------------------------------------------
\* next((m for m in MOD_LIST if m.ref == ref or m.id == ref), None):
\* the first registered object that matches, 0 for None.
Matches(m, ref) == heap[m].ref = ref \/ heap[m].id = ref
Lookup(ref) ==
    IF \E i \in 1..Len(MOD_LIST) : Matches(MOD_LIST[i], ref)
    THEN MOD_LIST[CHOOSE i \in 1..Len(MOD_LIST) :
                    /\ Matches(MOD_LIST[i], ref)
                    /\ \A j \in 1..(i - 1) : ~Matches(MOD_LIST[j], ref)]
    ELSE 0

\* isinstance(exist_mod, Mod.__class__): Mod.__class__ is the metaclass (or
\* the function type of the logger.catch wrapper), never the class of a Mod.
IsInstanceOfModClass(m) == FALSE

\* ------------------------------------------------------------------------
\* Returning and raising
\* ------------------------------------------------------------------------
\* How the retry loop of frame f ended: by a response that is no error, by a
\* 404, or by using up the retries (the test of line 322).
LoopEnd(f) ==
    IF f.pc # "parse" THEN f.how
    ELSE IF f.retry_attempts > MAX_REQUEST_RETRIES THEN "exhausted"
    ELSE IF f.status = 404 THEN "404"
    ELSE "ok"

\* The record of a completed call: what was asked, how it ended, how many
\* constructions were in progress when it ended, and where the innermost was.
Ended(c, status, exc, val, outs) ==
    [kind |-> c.kind, refs |-> c.refs, mp |-> c.mp, status |-> status,
     exc |-> exc, val |-> val, outs |-> outs,
     depth |-> Len(stack),
     pc |-> IF stack = << >> THEN "none" ELSE Top.pc,
     how |-> IF stack = << >> THEN "no" ELSE LoopEnd(Top)]
NoOutcome ==
    [kind |-> "none", refs |-> << >>, mp |-> FALSE, status |-> "none",
     exc |-> "", val |-> << >>, outs |-> << >>, depth |-> 0, pc |-> "none",
     how |-> "no"]

\* __build_singular hands res to its caller once the constructions in stk
\* remain: res is the Mod returned, or 0 for a ModInstanceCreationError.
\* The constructor of the dependent catches the error (line 393), the batch
\* loop skips the ref (line 538), a single build raises it to the caller.
Finish(stk, res) ==
    /\ req' = NoReq
    /\ IF stk # << >> THEN
            /\ stack' = [stk EXCEPT ![Len(stk)].new_dep = res,
                                    ![Len(stk)].pc = "link"]
            /\ UNCHANGED << call, outcome, log >>
       ELSE IF call.kind = "single" THEN
            /\ stack' = stk
            /\ call' = Idle
            /\ outcome' =
                    IF res # 0
                    THEN Ended(call, "return", "", << res >>, << res >>)
                    ELSE Ended(call, "raise", "ModInstanceCreationError",
                               << >>, << 0 >>)
            /\ log' = IF res # 0
                      THEN Append(log, [ref |-> call.refs[1], val |-> res])
                      ELSE log
       ELSE
            /\ stack' = stk
            /\ call' = [call EXCEPT !.idx = @ + 1,
                                    !.ret = IF res # 0 THEN Append(@, res) ELSE @,
                                    !.outs = Append(@, res)]
            /\ UNCHANGED << outcome, log >>

\* Abort, had the half-built Mod been cached before its metadata was found.
AbortCaching(stk) ==
    /\ Finish(stk, 0)
    /\ heap' = Append(heap, NewMod(req.ref, req.mp, 0, File))
    /\ MOD_LIST' = Append(MOD_LIST, Len(heap) + 1)

\* raise ModInstanceCreationError before the Mod has done anything but look
\* for its metadata (lines 172, 176, 184, 194, 233, 553, 558).
Abort(stk) ==
    /\ Finish(stk, 0)
    /\ UNCHANGED << heap, MOD_LIST >>

\* The objects of h that a reference still reaches once the constructions
\* of the call in progress are abandoned: the interpreter reclaims the Mods
\* created since the call began unless the registry or an older Mod holds one.
Reclaim(h) ==
    LET n == Len(call.heap0)
        Old == 1..n
        New == (n + 1)..Len(h)
        held == \/ \E i \in 1..Len(MOD_LIST) : MOD_LIST[i] \in New
                \/ \E o \in Old : \E i \in 1..Len(h[o].dependents) :
                        h[o].dependents[i] \in New
                \/ \E o \in Old : \E i \in 1..Len(h[o].dependencies) :
                        h[o].dependencies[i] \in New
    IN IF held THEN h ELSE SubSeq(h, 1, n)

\* An exception other than ModInstanceCreationError raised with the heap h:
\* no handler between the raise and the caller of ModFactory.build catches it.
Crash(exc, h) ==
    /\ req' = NoReq
    /\ stack' = << >>
    /\ call' = Idle
    /\ heap' = Reclaim(h)
    /\ outcome' = Ended(call, "raise", exc, << >>, call.outs)
    /\ UNCHANGED log

\* ------------------------------------------------------------------------
\* Inputs
\* ------------------------------------------------------------------------
\* Refs a caller may pass: every entry of the mods directory, a path that
\* does not exist (0), every catalog id, and a value of another type.
Refs == {PathRef(p) : p \in 0..Len(fs)} \cup {IntRef(k) : k \in Ids} \cup {BadRef}

\* Refs a batch is made of: the entries of the mods directory, as the caller
\* that iterates the directory passes them together with the directory
\* (line 700), and a value of another type.
BatchRefs == {PathRef(p) : p \in 1..Len(fs)} \cup {BadRef}

\* Sequences of refs of length 1..n.
SeqsUpTo(S, n) == UNION {[1..m -> S] : m \in 1..n}

\* Responses of the catalog to one GET: the status and the Retry-After header
\* (NoneVal when absent, an integer number of seconds, or an HTTP date).
RetryAfterSecs == {0, MaxRetryAfter}
DateHeader == [t |-> "date", v |-> 0]
Responses ==
    {[status |-> st, header |-> NoneVal] : st \in {200, 404, 429, 503}}
    \cup {[status |-> 429, header |-> IntRef(n)] : n \in RetryAfterSecs}
    \cup {[status |-> 429, header |-> DateHeader]}

\* What lxml makes of the body of the last response: "empty" (fromstring
\* raises ParserError), "garbled" (fromstring raises ParseError), "errpage"
\* (a document holding div.error_ctn), "page" (the listing of the mod).
Bodies == {"empty", "garbled", "errpage", "page"}

\* The fields lines 346-373 read off a listing.
PageFields == {"size", "uploaded", "last_updated", "preview"}

Init ==
    /\ \E w \in Worlds : fs = w.fs /\ links = w.links
    /\ heap = << >>
    /\ MOD_LIST = << >>
    /\ stack = << >>
    /\ req = NoReq
    /\ call = Idle
    /\ outcome = NoOutcome
    /\ log = << >>
    /\ used = 0

\* ------------------------------------------------------------------------
\* ModFactory.build: the caller's calls
\* ------------------------------------------------------------------------
CallerIdle == call.kind = "none" /\ stack = << >> /\ req = NoReq

\* build(ref, mods_path) with a single ref (lines 518, 520).
CallSingle(ref, mp) ==
    /\ CallerIdle
    /\ used < MaxCalls
    /\ used' = used + 1
    /\ LET c == [Idle EXCEPT !.kind = "single", !.refs = << ref >>, !.mp = mp,
                             !.heap0 = heap, !.list0 = MOD_LIST]
       IN IF ref.t \in {"int", "path"}
          THEN /\ call' = c
               /\ req' = [ref |-> ref, mp |-> mp]
               /\ outcome' = NoOutcome
          ELSE /\ call' = Idle
               /\ outcome' = Ended(c, "raise", "TypeError", << >>, << >>)
               /\ UNCHANGED req
    /\ UNCHANGED << fs, links, heap, MOD_LIST, stack, log >>

\* build(refs, mods_path) with a list or generator of refs (line 519).
CallBatch(refs, mp) ==
    /\ CallerIdle
    /\ used + Len(refs) <= MaxCalls
    /\ used' = used + Len(refs)
    /\ call' = [Idle EXCEPT !.kind = "batch", !.refs = refs, !.mp = mp, !.idx = 1,
                            !.heap0 = heap, !.list0 = MOD_LIST]
    /\ outcome' = NoOutcome
    /\ UNCHANGED << fs, links, heap, MOD_LIST, stack, req, log >>

\* __build_multiple, one iteration of the loop (lines 534-537).
BatchNext ==
    /\ call.kind = "batch" /\ stack = << >> /\ req = NoReq
    /\ call.idx <= Len(call.refs)
    /\ req' = [ref |-> call.refs[call.idx], mp |-> call.mp]
    /\ UNCHANGED << fs, links, heap, MOD_LIST, stack, call, outcome, log, used >>

\* __build_multiple, the return (line 541).
BatchReturn ==
    /\ call.kind = "batch" /\ stack = << >> /\ req = NoReq
    /\ call.idx > Len(call.refs)
    /\ outcome' = Ended(call, "return", "", call.ret, call.outs)
    /\ call' = Idle
    /\ UNCHANGED << fs, links, heap, MOD_LIST, stack, req, log, used >>

\* ------------------------------------------------------------------------
\* ModFactory.__build_singular and the local part of Mod.__post_init__
\* ------------------------------------------------------------------------
\* Lines 544-576 with lines 159-262 of the constructor they call: the type
\* and directory checks, the cache lookup, and for a miss the construction of
\* the Mod up to the decision whether its page is fetched.
Build ==
    /\ req # NoReq
    /\ LET ref == req.ref
           mp == req.mp
           exist_mod == Lookup(ref)
           d == MetaTree(fs, ref, mp)
           m == NewMod(ref, mp, d, fs[d])
           o == Len(heap) + 1
       IN IF Len(stack) >= RecursionLimit THEN
              Crash("RecursionError", heap) /\ UNCHANGED MOD_LIST
          ELSE IF ref.t \notin {"int", "path"} THEN
              Abort(stack)
          ELSE IF ref.t = "path" /\ ~IsDir(fs, ref.v) THEN
              Abort(stack)
          ELSE IF exist_mod # 0 THEN
              /\ IF IsInstanceOfModClass(exist_mod)
                 THEN Finish(stack, exist_mod) /\ UNCHANGED heap
                 ELSE Crash("TypeError", heap)
              /\ UNCHANGED MOD_LIST
          ELSE IF d = 0 THEN
              Abort(stack)
          ELSE
              /\ heap' = Append(heap, m)
              /\ stack' = Append(stack,
                     NewFrame(o, IF m.workshop_ok /\ m.id # NoneVal
                                 THEN "get" ELSE "register"))
              /\ req' = NoReq
              /\ UNCHANGED << MOD_LIST, call, outcome, log >>
    /\ UNCHANGED << fs, links, used >>

\* ------------------------------------------------------------------------
\* Mod.__post_init__, remote part
\* ------------------------------------------------------------------------
SetTop(f) == [stack EXCEPT ![Len(stack)] = f]
Running(pc) == req = NoReq /\ stack # << >> /\ Top.pc = pc

\* RetryDelay, had the Retry-After header been ignored.
RetryDelayIgnoringHeader(r) == DEFAULT_RETRY_TIME

\* The delay lines 284-294 and 316 choose for a retryable response.
RetryDelay(r) ==
    IF r.status = 429 /\ r.header.t = "int" THEN r.header.v
    ELSE DEFAULT_RETRY_TIME

\* Get, had a 404 been retried like any other error status.
GetRetrying404(r) ==
    /\ Running("get")
    /\ LET f == [Top EXCEPT !.gets = @ + 1, !.status = r.status,
                            !.header = r.header, !.slept = 0]
       IN IF r.status < 400 THEN
              /\ stack' = SetTop([f EXCEPT !.pc = "parse"])
              /\ UNCHANGED << heap, req, call, outcome, log >>
          ELSE IF r.status = 429 /\ r.header.t = "date" THEN
              Crash("AttributeError", heap)
          ELSE
              /\ stack' = SetTop([f EXCEPT !.pc = "sleep",
                                           !.retry_delay = RetryDelay(r)])
              /\ UNCHANGED << heap, req, call, outcome, log >>
    /\ UNCHANGED << fs, links, MOD_LIST, used >>

\* One pass of the retry loop up to the sleep (lines 267-295, 302-313):
\* the GET and the classification of its response.
Get(r) ==
    /\ Running("get")
    /\ LET f == [Top EXCEPT !.gets = @ + 1, !.status = r.status,
                            !.header = r.header, !.slept = 0]
       IN IF r.status < 400 \/ r.status = 404 THEN
              /\ stack' = SetTop([f EXCEPT !.pc = "parse"])
              /\ UNCHANGED << heap, req, call, outcome, log >>
          ELSE IF r.status = 429 /\ r.header.t = "date" THEN
              Crash("AttributeError", heap)
          ELSE
              /\ stack' = SetTop([f EXCEPT !.pc = "sleep",
                                           !.retry_delay = RetryDelay(r)])
              /\ UNCHANGED << heap, req, call, outcome, log >>
    /\ UNCHANGED << fs, links, MOD_LIST, used >>

\* LoopTest, had the budget been one retry larger.
LoopTestOneMore(retry_attempts) == retry_attempts <= MAX_REQUEST_RETRIES + 1

\* The loop test of line 267.
LoopTest(retry_attempts) == retry_attempts <= MAX_REQUEST_RETRIES

\* Sleep, had the retry not been counted.
SleepNotCounting ==
    /\ Running("sleep")
    /\ stack' = SetTop([Top EXCEPT
            !.slept = Top.retry_delay,
            !.pc = IF LoopTest(Top.retry_attempts) THEN "get" ELSE "parse"])
    /\ UNCHANGED << fs, links, heap, MOD_LIST, req, call, outcome, log, used >>

\* The sleep, the increment and the loop test (lines 297-300, 316-319, 267).
Sleep ==
    /\ Running("sleep")
    /\ stack' = SetTop([Top EXCEPT
            !.slept = Top.retry_delay,
            !.retry_attempts = @ + 1,
            !.pc = IF LoopTest(Top.retry_attempts + 1) THEN "get" ELSE "parse"])
    /\ UNCHANGED << fs, links, heap, MOD_LIST, req, call, outcome, log, used >>

\* Parse, had the error-page marker of the body not been looked for.
ParseIgnoringMarker(body) ==
    /\ Running("parse")
    /\ LET self == Top.self
           ok == /\ heap[self].workshop_ok
                 /\ Top.retry_attempts <= MAX_REQUEST_RETRIES
                 /\ body \in {"page", "errpage"}
           done == [NewFrame(self, IF ok THEN "deps" ELSE "register")
                        EXCEPT !.how = LoopEnd(Top)]
       IN IF body = "empty" THEN
              Crash("ParserError", [heap EXCEPT ![self].workshop_ok =
                  @ /\ Top.retry_attempts <= MAX_REQUEST_RETRIES])
          ELSE IF body = "garbled" THEN
              Crash("UnboundLocalError", [heap EXCEPT ![self].workshop_ok = FALSE])
          ELSE
              /\ heap' = [heap EXCEPT ![self].workshop_ok = ok,
                                      ![self].remote = IF ok THEN PageFields ELSE @]
              /\ stack' = SetTop(done)
              /\ UNCHANGED << req, call, outcome, log >>
    /\ UNCHANGED << fs, links, MOD_LIST, used >>

\* After the loop (lines 321-375): the budget test, the parse of the body of
\* the last response, the error marker and the fields of the listing.
Parse(body) ==
    /\ Running("parse")
    /\ LET self == Top.self
           ok == /\ heap[self].workshop_ok
                 /\ Top.retry_attempts <= MAX_REQUEST_RETRIES
                 /\ body = "page"
           done == [NewFrame(self, IF ok THEN "deps" ELSE "register")
                        EXCEPT !.how = LoopEnd(Top)]
       IN IF body = "empty" THEN
              Crash("ParserError", [heap EXCEPT ![self].workshop_ok =
                  @ /\ Top.retry_attempts <= MAX_REQUEST_RETRIES])
          ELSE IF body = "garbled" THEN
              Crash("UnboundLocalError", [heap EXCEPT ![self].workshop_ok = FALSE])
          ELSE
              /\ heap' = [heap EXCEPT ![self].workshop_ok = ok,
                                      ![self].remote = IF ok THEN PageFields ELSE @]
              /\ stack' = SetTop(done)
              /\ UNCHANGED << req, call, outcome, log >>
    /\ UNCHANGED << fs, links, MOD_LIST, used >>

\* The links div#RequiredItems>a of the page of the Mod being constructed.
LinksOf(self) == links[heap[self].id.v]

\* One required item (lines 378-393): the id of the link, then the call of
\* ModFactory.build for it.  A link without an id leaves item_ref as it was.
NextLink ==
    /\ Running("deps")
    /\ Top.link <= Len(LinksOf(Top.self))
    /\ LET l == LinksOf(Top.self)[Top.link]
           item_ref == IF l = BadLink THEN Top.item_ref ELSE IntRef(l)
       IN IF item_ref = NoneVal THEN
              Crash("UnboundLocalError", heap)
          ELSE
              /\ stack' = SetTop([Top EXCEPT !.item_ref = item_ref, !.pc = "call"])
              /\ req' = [ref |-> item_ref, mp |-> heap[Top.self].mods_path]
              /\ UNCHANGED << heap, call, outcome, log >>
    /\ UNCHANGED << fs, links, MOD_LIST, used >>

\* Linked, had only the forward edge been inserted.
LinkedOneSided(h, self, new_dep) ==
    [h EXCEPT ![self].dependencies = Append(@, new_dep)]

\* Linked, had the two lists been taken for each other.
LinkedSwapped(h, self, new_dep) ==
    LET h1 == [h EXCEPT ![new_dep].dependencies = Append(@, self)]
    IN [h1 EXCEPT ![self].dependents = Append(@, new_dep)]

\* The heap after lines 403-409 link self to its dependency new_dep.  count()
\* compares by identity first and then by the dataclass's field-wise equality;
\* a Mod of new_dep.dependencies that is not self was completed inside the
\* construction of new_dep, so its dependencies differ from those of self,
\* which now end with new_dep: only self itself is counted.
Linked(h, self, new_dep) ==
    LET h1 == [h EXCEPT ![new_dep].dependents = Append(@, self)]
        h2 == [h1 EXCEPT ![self].dependencies = Append(@, new_dep)]
        circ == \E i \in 1..Len(h2[new_dep].dependencies) :
                    h2[new_dep].dependencies[i] = self
    IN [h2 EXCEPT ![self].circular = @ \/ circ]

\* The link of a dependency that was built (lines 395-411).
Link ==
    /\ Running("link")
    /\ heap' = IF Top.new_dep = 0 THEN heap
               ELSE Linked(heap, Top.self, Top.new_dep)
    /\ stack' = SetTop([Top EXCEPT !.pc = "deps", !.link = @ + 1, !.new_dep = 0])
    /\ UNCHANGED << fs, links, MOD_LIST, req, call, outcome, log, used >>

\* EndLinks, had the constructor gone on before its loop was through.
EndLinksEarly ==
    /\ Running("deps")
    /\ heap' = [heap EXCEPT ![Top.self].remote = @ \cup {"authors"}]
    /\ stack' = SetTop([NewFrame(Top.self, "register") EXCEPT !.how = Top.how])
    /\ UNCHANGED << fs, links, MOD_LIST, req, call, outcome, log, used >>

\* The end of the required items and the authors (lines 413-432).
EndLinks ==
    /\ Running("deps")
    /\ Top.link > Len(LinksOf(Top.self))
    /\ heap' = [heap EXCEPT ![Top.self].remote = @ \cup {"authors"}]
    /\ stack' = SetTop([NewFrame(Top.self, "register") EXCEPT !.how = Top.how])
    /\ UNCHANGED << fs, links, MOD_LIST, req, call, outcome, log, used >>

\* __register_self (lines 441-447): register_to is ModFactory.MOD_LIST,
\* and an empty list is false.
RegisterSelf(list, self) ==
    IF Len(list) > 0 THEN Append(list, self) ELSE list

\* The end of the constructor (lines 438-439) and the return of the new Mod
\* through __build_singular to its caller (line 565).
Register ==
    /\ Running("register")
    /\ MOD_LIST' = RegisterSelf(MOD_LIST, Top.self)
    /\ Finish(Pop, Top.self)
    /\ UNCHANGED << fs, links, heap, used >>

Next ==
    \/ \E ref \in Refs, mp \in BOOLEAN : CallSingle(ref, mp)
    \/ \E refs \in SeqsUpTo(BatchRefs, MaxCalls) : CallBatch(refs, TRUE)
    \/ BatchNext
    \/ BatchReturn
    \/ Build
    \/ \E r \in Responses : Get(r)
    \/ Sleep
    \/ \E body \in Bodies : Parse(body)
    \/ NextLink
    \/ Link
    \/ EndLinks
    \/ Register

Spec == Init /\ [][Next]_vars

\* The steps of the program, as opposed to the calls its caller chooses to
\* make.  The interpreter runs one thread and always executes the next
\* statement: a GET returns, a sleep ends, and whatever is enabled happens.
Steps ==
    \/ BatchNext
    \/ BatchReturn
    \/ Build
    \/ \E r \in Responses : Get(r)
    \/ Sleep
    \/ \E body \in Bodies : Parse(body)
    \/ NextLink
    \/ Link
    \/ EndLinks
    \/ Register

FairSpec == Spec /\ WF_vars(Steps)

\* ------------------------------------------------------------------------
\* Two threads calling ModFactory.build on the one class attribute MOD_LIST
\* ------------------------------------------------------------------------
\* The interpreter may switch threads between any two bytecodes, so between
\* the lookup of line 564, the constructor and the append of line 447
\* nothing keeps another thread out: the code holds no lock.  Here stack[w]
\* is the frame of worker w (not a nesting of constructions), call.refs[w]
\* its ref and call.ret[w] the Mod returned to it.  The workers build refs
\* whose metadata gives no id, for which the constructor is lines 159-262
\* followed at once by line 439.
Workers == {1, 2}
WorkerRefs ==
    {r \in Refs : LET d == MetaTree(fs, r, TRUE) IN d = 0 \/ fs[d].id <= 0}

InitWorkers ==
    /\ \E w \in Worlds : fs = w.fs /\ links = w.links
    /\ heap = << >>
    /\ MOD_LIST = << >>
    /\ stack = << NewFrame(0, "idle"), NewFrame(0, "idle") >>
    /\ req = NoReq
    /\ call = [Idle EXCEPT !.kind = "workers", !.mp = TRUE,
                           !.refs = << NoneVal, NoneVal >>, !.ret = << 0, 0 >>]
    /\ outcome = NoOutcome
    /\ log = << >>
    /\ used = 0

\* Worker w calls build(ref, mods_path) (line 518).
WorkerCall(w, ref) ==
    /\ stack[w].pc = "idle"
    /\ stack' = [stack EXCEPT ![w].pc = "lookup"]
    /\ call' = [call EXCEPT !.refs[w] = ref]
    /\ UNCHANGED << fs, links, heap, MOD_LIST, req, outcome, log, used >>

\* Worker w runs __build_singular up to the end of the local part of the
\* constructor (lines 551-565, 159-262): the checks, the lookup, and for a
\* miss the new Mod, not yet registered.
WorkerBuild(w) ==
    /\ stack[w].pc = "lookup"
    /\ LET ref == call.refs[w]
           exist_mod == Lookup(ref)
           d == MetaTree(fs, ref, call.mp)
       IN IF ref.t \notin {"int", "path"} \/ (exist_mod = 0 /\ d = 0) THEN
              /\ stack' = [stack EXCEPT ![w].pc = "raised"]
              /\ UNCHANGED heap
          ELSE IF exist_mod # 0 THEN
              /\ stack' = [stack EXCEPT
                     ![w].pc = IF IsInstanceOfModClass(exist_mod)
                               THEN "returned" ELSE "raised",
                     ![w].self = exist_mod]
              /\ UNCHANGED heap
          ELSE
              /\ heap' = Append(heap, NewMod(ref, call.mp, d, fs[d]))
              /\ stack' = [stack EXCEPT ![w] = NewFrame(Len(heap) + 1, "register")]
    /\ UNCHANGED << fs, links, MOD_LIST, req, call, outcome, log, used >>

\* Worker w ends the constructor with __register_self (lines 438-447) and
\* gets its Mod (line 565).
WorkerRegister(w) ==
    /\ stack[w].pc = "register"
    /\ MOD_LIST' = RegisterSelf(MOD_LIST, stack[w].self)
    /\ stack' = [stack EXCEPT ![w].pc = "returned"]
    /\ call' = [call EXCEPT !.ret[w] = stack[w].self]
    /\ UNCHANGED << fs, links, heap, req, outcome, log, used >>

NextWorkers ==
    \/ \E w \in Workers : \E ref \in WorkerRefs : WorkerCall(w, ref)
    \/ \E w \in Workers : WorkerBuild(w)
    \/ \E w \in Workers : WorkerRegister(w)

SpecWorkers == InitWorkers /\ [][NextWorkers]_vars

\* ------------------------------------------------------------------------
\* Properties
\* ------------------------------------------------------------------------
Has(s, x) == \E i \in 1..Len(s) : s[i] = x
Objs == 1..Len(heap)
Frames == {stack[i] : i \in 1..Len(stack)}
\* The Mods the caller's latest call returned.
Results == {outcome.val[k] : k \in 1..Len(outcome.val)}
\* The ids of the required items that the constructor of a read off its page.
Listed(a) ==
    IF heap[a].remote # {}
    THEN {LinksOf(a)[i] : i \in 1..Len(LinksOf(a))} \ {BadLink}
    ELSE {}

\* C1: a second build(A) on the same registry returns the very Mod object
\* the first build(A) returned, and constructs no second Mod.
C1_IdentityDedup ==
    \A i, j \in 1..Len(log) :
        (i < j /\ log[i].ref = log[j].ref) => log[j].val = log[i].val

\* C2: the registry never holds two Mod objects of one identity, and a mod
\* built from its directory and then from its catalog id (or the other way
\* round) is one and the same object.
SameIdentity(a, b) ==
    \/ heap[a].ref = heap[b].ref
    \/ heap[a].id # NoneVal /\ heap[a].id = heap[b].id
C2_OnePerIdentity ==
    /\ \A i, j \in 1..Len(MOD_LIST) :
           i # j => ~SameIdentity(MOD_LIST[i], MOD_LIST[j])
    /\ \A i, j \in 1..Len(log) :
           (/\ i < j
            /\ log[i].ref.t # log[j].ref.t
            /\ heap[log[i].val].id # NoneVal
            /\ heap[log[i].val].id = heap[log[j].val].id)
               => log[j].val = log[i].val

\* C3: when two installed mods list each other as required items, a build of
\* either ends without raising, the recursion being bounded, and afterwards
\* one of the two carries the circular-dependency warning.
ListEachOther(a, b) ==
    /\ heap[b].id # NoneVal
    /\ heap[b].id.v \in Listed(a)
    /\ heap[a].id.v \in Listed(b)
C3_CycleTolerance ==
    /\ outcome.exc # "RecursionError"
    /\ \A a \in Results : \A b \in Objs :
           (Has(heap[a].dependencies, b) /\ ListEachOther(a, b))
               => (heap[a].circular \/ heap[b].circular)

\* C4: B is in A.dependencies exactly when A is in B.dependents, for all
\* Mods A and B; and a build that returned A, whose page lists the id of a
\* mod that can be built from A's mods_path, left that mod in A.dependencies
\* with A among its dependents.
C4_EdgeSymmetry ==
    /\ \A a, b \in Objs :
           Has(heap[a].dependencies, b) <=> Has(heap[b].dependents, a)
    /\ \A a \in Results : \A k \in Listed(a) :
           MetaTree(fs, IntRef(k), heap[a].mods_path) # 0
               => \E b \in Objs : /\ heap[b].ref = IntRef(k)
                                   /\ Has(heap[a].dependencies, b)
                                   /\ Has(heap[b].dependents, a)
C4_Witness ==
    \E a \in Results : \E k \in Listed(a) : \E b \in Objs :
        /\ heap[b].ref = IntRef(k)
        /\ Has(heap[a].dependencies, b)
        /\ Has(heap[b].dependents, a)

\* C5: a batch build returns the Mods of exactly the refs whose build
\* succeeds, in input order, whatever happens to the other refs: no ref that
\* fails keeps the refs after it from being built.
RECURSIVE Successes(_)
Successes(outs) ==
    IF outs = << >> THEN << >>
    ELSE IF outs[1] = 0 THEN Successes(Tail(outs))
    ELSE << outs[1] >> \o Successes(Tail(outs))
C5_BatchPartialSuccess ==
    outcome.kind = "batch"
        => /\ outcome.status = "return"
           /\ Len(outcome.outs) = Len(outcome.refs)
           /\ outcome.val = Successes(outcome.outs)

\* C6: a single build of a ref whose metadata cannot be found or read (a
\* path that is no directory, a directory without metadata.xml or with one
\* that cannot be parsed, an integer ref without mods_path or without a
\* matching folder) ends by raising ModInstanceCreationError to the caller
\* and leaves the registry as the call found it: no Mod is added to the heap
\* or to MOD_LIST, and no Mod's dependencies or dependents are touched.
C6_FailedBuildLeavesRegistry ==
    [][(/\ call.kind = "single"
        /\ call'.kind = "none"
        /\ MetaTree(fs, call.refs[1], call.mp) = 0)
           => (/\ outcome'.status = "raise"
               /\ outcome'.exc = "ModInstanceCreationError"
               /\ heap' = call.heap0
               /\ MOD_LIST' = call.list0)]_vars
C6_Witness ==
    /\ outcome.kind = "single"
    /\ outcome.exc = "ModInstanceCreationError"
    /\ outcome.refs[1].t = "int"
    /\ outcome.mp
    /\ MetaTree(fs, outcome.refs[1], outcome.mp) = 0
    /\ Len(log) = 1
    /\ heap[log[1].val].dependencies # << >>

\* C7: the failure of the build of a dependency never reaches the caller of
\* the dependent's build: the dependency is left out and the dependent is
\* completed and registered.
C7_DependencyFailureSwallowed ==
    /\ outcome.status = "raise" => outcome.depth <= 1
    /\ \A a \in Results :
           (Listed(a) # {} /\ Len(heap[a].dependencies) < Len(LinksOf(a)))
               => Has(MOD_LIST, a)

\* C8: a Mod whose fetch used up the retry budget is still built without
\* raising, is registered with workshop_ok false, and keeps the defaults of
\* its remote fields.
C8_BudgetExhausted ==
    /\ ~(outcome.status = "raise" /\ outcome.how = "exhausted")
    /\ \A f \in Frames :
           (f.pc = "register" /\ f.how = "exhausted")
               => /\ ~heap[f.self].workshop_ok
                  /\ heap[f.self].remote = {}
                  /\ heap[f.self].dependencies = << >>
    /\ (outcome.kind = "single" /\ outcome.status = "return"
            /\ outcome.how = "exhausted")
               => Has(MOD_LIST, outcome.val[1])

\* C9 as claimed: one construction never issues more than
\* MAX_REQUEST_RETRIES GETs.
C9_GetsWithinMaxRetries ==
    \A f \in Frames : f.gets <= MAX_REQUEST_RETRIES

\* C9 as amended: one construction never issues more than
\* MAX_REQUEST_RETRIES + 1 GETs, the first attempt and the retries.
C9_GetsWithinBudget ==
    \A f \in Frames : f.gets <= MAX_REQUEST_RETRIES + 1
C9_Witness ==
    \E f \in Frames : f.gets = MAX_REQUEST_RETRIES + 1

\* C10: a 429 response with Retry-After: N counts as exactly one attempt, at
\* least N time-units are slept before the next GET, and that GET is the one
\* further attempt, made unless the budget is used up.
After429(f) == f.status = 429 /\ f.header.t = "int"
C10_RetryAfterHonoured ==
    \A f \in Frames :
        After429(f) =>
            /\ f.pc = "sleep" => /\ f.retry_delay >= f.header.v
                                 /\ f.gets = f.retry_attempts + 1
            /\ f.pc = "get" => /\ f.slept >= f.header.v
                               /\ f.gets = f.retry_attempts
                               /\ f.retry_attempts <= MAX_REQUEST_RETRIES
            /\ f.pc = "parse" => /\ f.slept >= f.header.v
                                 /\ f.gets = f.retry_attempts
                                 /\ f.retry_attempts > MAX_REQUEST_RETRIES
            /\ f.pc \in {"sleep", "get", "parse"}
C10_Witness ==
    \E f \in Frames :
        /\ f.pc = "get"
        /\ f.status = 429
        /\ f.header = IntRef(MaxRetryAfter)
        /\ f.slept = MaxRetryAfter

\* C11: a 404 ends the retry loop: the construction that received it neither
\* sleeps nor issues another GET, however many retries remain; it goes on
\* to read the body of that response.
C11_NotFoundNotRetried ==
    /\ [](\A f \in Frames :
            f.status = 404 => /\ f.pc = "parse"
                              /\ f.slept = 0
                              /\ f.gets = f.retry_attempts + 1)
    /\ [][\A i \in 1..Len(stack) :
            (stack[i].status = 404 /\ i <= Len(stack')
                /\ stack'[i].self = stack[i].self)
                   => /\ stack'[i].pc \notin {"get", "sleep"}
                      /\ stack'[i].gets <= stack[i].gets]_vars
C11_Witness ==
    \E f \in Frames :
        /\ f.status = 404
        /\ f.pc = "parse"
        /\ f.retry_attempts = 1
        /\ f.retry_attempts < MAX_REQUEST_RETRIES

\* C12: a construction whose fetch was answered 404 is not aborted, ends
\* with workshop_ok false and with no remote field set, and builds and links
\* no dependency from the body of the 404 response.
C12_NotFoundDowngrades ==
    /\ ~(outcome.status = "raise" /\ outcome.pc = "parse"
            /\ outcome.how = "404")
    /\ \A f \in Frames :
           f.how = "404" => /\ f.pc = "register"
                            /\ ~heap[f.self].workshop_ok
                            /\ heap[f.self].remote = {}
                            /\ heap[f.self].dependencies = << >>

\* C13: reading a body that holds the error-page marker leaves the Mod with
\* workshop_ok false and no remote field, and takes the construction straight
\* to its end, past the required items, whatever the status of the response
\* was; a Mod that ends with workshop_ok false has no remote field and no
\* dependency.
C13_ErrorPageDowngrades ==
    /\ [](\A f \in Frames :
            (f.pc = "register" /\ ~heap[f.self].workshop_ok)
                => (heap[f.self].remote = {}
                        /\ heap[f.self].dependencies = << >>))
    /\ [][Parse("errpage")
            => /\ ~heap'[Top.self].workshop_ok
               /\ heap'[Top.self].remote = {}
               /\ heap'[Top.self].dependencies = << >>
               /\ stack'[Len(stack)].pc = "register"
               /\ req' = NoReq]_vars
C13_Witness ==
    \E f \in Frames :
        /\ f.pc = "register"
        /\ f.how = "ok"
        /\ heap[f.self].id # NoneVal
        /\ ~heap[f.self].workshop_ok

\* C14: a Mod whose metadata gives no id is constructed without any GET and
\* without reading any page, and the build of its directory returns it; a
\* Mod whose metadata gives an id is never completed without the fetch,
\* whichever of name, description, version and visibility are missing.
C14_NoIdNoFetch ==
    /\ \A f \in Frames :
           heap[f.self].id = NoneVal
               => (f.pc = "register" /\ f.gets = 0 /\ f.how = "no")
    /\ \A f \in Frames :
           heap[f.self].id # NoneVal => ~(f.pc = "register" /\ f.how = "no")
    /\ (/\ outcome.kind = "single"
        /\ outcome.refs[1].t = "path"
        /\ IsDir(fs, outcome.refs[1].v)
        /\ fs[outcome.refs[1].v].meta = "ok"
        /\ fs[outcome.refs[1].v].id <= 0)
           => /\ outcome.status = "return"
              /\ heap[outcome.val[1]].id = NoneVal
              /\ heap[outcome.val[1]].remote = {}
C14_Witness ==
    /\ Len(log) = 1
    /\ heap[log[1].val].id = NoneVal
    /\ fs[heap[log[1].val].folder].id = -1
    /\ \E f \in Frames : heap[f.self].attrs # OtherAttrs /\ f.gets = 1

\* C15: a Mod built from an integer ref k comes from a directory whose
\* metadata id is the text of k, and a build of k with no such directory
\* under mods_path raises ModInstanceCreationError, whatever else the
\* directory holds and in whatever order it is iterated.
HasFolder(k) ==
    \E p \in 1..Len(fs) :
        fs[p].kind = "dir" /\ fs[p].meta = "ok" /\ fs[p].id = k
C15_SearchSound ==
    /\ \A o \in Objs :
           heap[o].ref.t = "int" => fs[heap[o].folder].id = heap[o].ref.v
    /\ (/\ outcome.kind = "single"
        /\ outcome.refs[1].t = "int"
        /\ ~HasFolder(outcome.refs[1].v))
           => outcome.exc = "ModInstanceCreationError"

\* C16: a Mod under construction is neither registered nor in anyone's
\* hands; while the build of one of its dependencies runs, its constructor
\* waits at that call; its link counter advances only past a build call that
\* has returned; and it reaches its registration only without a page to read
\* or with the counter past the last link of the page.
Returned(o) ==
    \/ Has(MOD_LIST, o)
    \/ \E i \in 1..Len(log) : log[i].val = o
    \/ o \in Results
    \/ Has(call.ret, o)
    \/ \E f \in Frames : f.new_dep = o
    \/ \E p \in Objs : Has(heap[p].dependencies, o)
C16_RegisteredAfterDependencies ==
    /\ [](/\ \A f \in Frames : ~Returned(f.self)
          /\ \A i \in 1..(Len(stack) - 1) : stack[i].pc = "call")
    /\ [][\A i \in 1..Len(stack) :
            (i <= Len(stack') /\ stack'[i].self = stack[i].self)
                => /\ (stack[i].pc # "register" /\ stack'[i].pc = "register")
                        => \/ (stack[i].pc = "parse"
                                    /\ heap'[stack[i].self].remote = {})
                           \/ /\ stack[i].pc = "deps"
                              /\ i = Len(stack)
                              /\ stack[i].link > Len(LinksOf(stack[i].self))
                   /\ (stack'[i].link # stack[i].link)
                        => \/ stack'[i].pc = "register"
                           \/ /\ stack[i].pc = "link"
                              /\ stack'[i].link = stack[i].link + 1]_vars
C16_Witness ==
    \E a \in Results :
        /\ heap[a].remote # {}
        /\ Len(LinksOf(a)) = 2
        /\ Len(heap[a].dependencies) = 1

\* C17: a Mod whose constructor is calling build for one of its dependencies
\* is already in MOD_LIST, and no second Mod of its ref is under construction
\* inside that call.
C17_RegisteredBeforeRecursing ==
    /\ \A i \in 1..Len(stack) :
           stack[i].pc = "call" => Has(MOD_LIST, stack[i].self)
    /\ \A i, j \in 1..Len(stack) :
           i < j => heap[stack[i].self].ref # heap[stack[j].self].ref

\* C18 (under SpecWorkers): two workers building the same ref are never both
\* between their lookup and their insert, never get two different Mods, and
\* MOD_LIST never holds two Mods of one identity.
C18_LookupInsertSerialized ==
    /\ \A v, w \in Workers :
           (v # w /\ call.refs[v] = call.refs[w] /\ stack[v].pc = "register")
               => stack[w].pc # "register"
    /\ \A v, w \in Workers :
           (/\ call.refs[v] = call.refs[w]
            /\ stack[v].pc = "returned"
            /\ stack[w].pc = "returned")
               => stack[v].self = stack[w].self
    /\ \A i, j \in 1..Len(MOD_LIST) :
           i # j => ~SameIdentity(MOD_LIST[i], MOD_LIST[j])

\* C19: a step changes nothing of a Mod whose construction has ended but,
\* at most, appends to its dependents; a Mod that existed when the caller's
\* call began is still there after the step; and no entry leaves MOD_LIST or
\* changes its place.
IsPrefix(s, t) == Len(s) <= Len(t) /\ SubSeq(t, 1, Len(s)) = s
C19_ReturnedModsFrozen ==
    [][/\ \A o \in Objs :
            (\A f \in Frames : f.self # o)
                => /\ (call.kind = "none" \/ o <= Len(call.heap0))
                        => o <= Len(heap')
                   /\ o <= Len(heap')
                        => /\ [heap'[o] EXCEPT !.dependents = heap[o].dependents]
                                = heap[o]
                           /\ IsPrefix(heap[o].dependents, heap'[o].dependents)
       /\ IsPrefix(MOD_LIST, MOD_LIST')]_vars
C19_Witness ==
    /\ Len(log) = 1
    /\ heap[log[1].val].dependencies # << >>
    /\ call.kind = "single"
    /\ \E o \in Objs : o > Len(call.heap0) /\ heap[o].dependents # << >>

\* C20: metadata_ok of a Mod is true exactly when its metadata supplied all
\* of name, id, description, version and visibility.
C20_MetadataOkTracksFields ==
    \A o \in Objs :
        heap[o].metadata_ok
            <=> (heap[o].id # NoneVal /\ heap[o].attrs = OtherAttrs)

\* C21: no exception leaves the retry loop, and the sleep after a 429 is
\* the number of the Retry-After header when it holds one and
\* DEFAULT_RETRY_TIME when there is no header; in each case the next state of
\* the construction is that sleep, followed by the next attempt.
C21_RetryAfterBothForms ==
    /\ ~(outcome.status = "raise" /\ outcome.pc = "get")
    /\ \A f \in Frames :
           (f.status = 429 /\ f.pc = "sleep")
               => /\ f.header.t \in {"int", "None"}
                  /\ f.retry_delay = IF f.header.t = "int" THEN f.header.v
                                     ELSE DEFAULT_RETRY_TIME

\* C22: when two builds have returned two Mods whose pages both list the id
\* of an installed mod, one Mod was constructed for that id, both returned
\* Mods have it among their dependencies, and it has both among its
\* dependents.
C22_SharedDependency ==
    \A i, j \in 1..Len(log) :
        LET a == log[i].val
            b == log[j].val
        IN (i < j /\ heap[a].ref # heap[b].ref)
            => \A k \in Listed(a) \cap Listed(b) :
                   HasFolder(k)
                       => /\ Cardinality({o \in Objs : heap[o].ref = IntRef(k)}) = 1
                          /\ \E c \in Objs :
                                /\ heap[c].ref = IntRef(k)
                                /\ Has(heap[a].dependencies, c)
                                /\ Has(heap[b].dependencies, c)
                                /\ Has(heap[c].dependents, a)
                                /\ Has(heap[c].dependents, b)

\* C23: no build call is made for a link whose id cannot be extracted, the
\* loop over the links goes on past it without raising, and a returned Mod
\* has no two dependencies of one ref (its page listing no id twice).
C23_BadLinkSkipped ==
    /\ \A f \in Frames :
           f.pc = "call" => LinksOf(f.self)[f.link] # BadLink
    /\ ~(outcome.exc = "UnboundLocalError" /\ outcome.pc = "deps")
    /\ \A a \in Results :
           \A i, j \in 1..Len(heap[a].dependencies) :
               i < j => heap[heap[a].dependencies[i]].ref
                            # heap[heap[a].dependencies[j]].ref

\* C24: every Mod in the dependencies or dependents of a Mod of MOD_LIST is
\* in MOD_LIST; and between the caller's calls this is so of every Mod that
\* build has returned, which its constructor registered before returning.
Neighbours(o) ==
    {heap[o].dependencies[i] : i \in 1..Len(heap[o].dependencies)}
        \cup {heap[o].dependents[i] : i \in 1..Len(heap[o].dependents)}
Max(S) == CHOOSE n \in S : \A m \in S : m <= n
RECURSIVE DepthFrom(_)
DepthFrom(k) ==
    LET next == {l \in {links[k][i] : i \in 1..Len(links[k])} \ {BadLink} :
                    HasFolder(l)}
    IN IF next = {} THEN 1 ELSE 1 + Max({DepthFrom(l) : l \in next})
Acyclic == links = AcyclicWorld.links
C25_BuildTerminates ==
    /\ [](\A f \in Frames :
            /\ f.gets <= f.retry_attempts + 1
            /\ f.retry_attempts <= MAX_REQUEST_RETRIES + 1)
    /\ [](Acyclic => Len(stack) <= Max({DepthFrom(k) : k \in Ids}))
    /\ ((call.kind = "single" /\ Acyclic) ~> (call.kind = "none"))
C25_Witness ==
    /\ Acyclic
    /\ outcome.kind = "single"
    /\ outcome.status = "return"
    /\ heap[outcome.val[1]].dependencies # << >>

====
